---- MODULE Spec2Model ----
(***************************************************************************)
(* Flag registration and post-parse pipeline of pkg/cli (flags.go).        *)
(*                                                                         *)
(* Go strings that the code inspects character by character (ratio, byte   *)
(* quantity, regex, path and option values) are sequences of one-character *)
(* strings.  Flag names are TLA+ strings.  A Go interface value is a       *)
(* record whose field kind is the dynamic type; NIL is the nil interface.  *)
(***************************************************************************)
EXTENDS Integers, Sequences, FiniteSets, TLC

VARIABLES cl, calls, args, pc, idx, err, checked

vars == <<cl, calls, args, pc, idx, err, checked>>

----------------------------------------------------------------------------
(* Bounds of the model *)

\* number of builder calls the tool author makes before parsing
MaxCalls == 2

----------------------------------------------------------------------------
(* Constants of flags.go.  int is taken at its 32-bit width (GOARCH with   *)
(* 32-bit int), where int(^uint(0) >> 1) = 2^31 - 1.  A uint64 is written   *)
(* as four 16-bit limbs, most significant first.                           *)

\* int(^uint(0)), the shift forgotten
maxIntUnshifted == 0 - 1

maxInt == 2147483647

max32Int == 2147483647

maxUint64 == <<65535, 65535, 65535, 65535>>

----------------------------------------------------------------------------
(* Values *)

NIL == [kind |-> "nil"]

StringMe(s) == [kind |-> "string", v |-> s]

IntMe(i) == [kind |-> "int", v |-> i]

Int32Me(i) == [kind |-> "int32", v |-> i]

BoolMe(b) == [kind |-> "bool", v |-> b]

SliceMe(l) == [kind |-> "slice", v |-> l]

\* a float64: a finite quotient num/den in lowest terms, the largest finite
\* value, +Inf or NaN
Gcd(a, b) == CHOOSE g \in 1..(IF a > b THEN a ELSE b) :
                /\ a % g = 0 /\ b % g = 0
                /\ \A h \in (g + 1)..(IF a > b THEN a ELSE b) : ~(a % h = 0 /\ b % h = 0)

Finite(n, d) == IF n = 0 THEN [cls |-> "finite", num |-> 0, den |-> 1]
                ELSE [cls |-> "finite", num |-> n \div Gcd(n, d), den |-> d \div Gcd(n, d)]

PosInf == [cls |-> "inf", num |-> 0, den |-> 1]

NaN == [cls |-> "nan", num |-> 0, den |-> 1]

MaxFloat64 == [cls |-> "max", num |-> 0, den |-> 1]

\* float64(b) / float64(a) for non-negative ints a, b (IEEE 754 division)
FloatDiv(b, a) == IF a # 0 THEN Finite(b, a)
                  ELSE IF b = 0 THEN NaN ELSE PosInf

\* x > y on float64; every comparison with NaN is false
FloatGT(x, y) ==
    IF x.cls = "nan" \/ y.cls = "nan" THEN FALSE
    ELSE IF x.cls = "inf" THEN y.cls # "inf"
    ELSE IF x.cls = "max" THEN y.cls = "finite"
    ELSE y.cls = "finite" /\ x.num * y.den > y.num * x.den

Float64Me(f) == [kind |-> "float64", v |-> f]

----------------------------------------------------------------------------
(* Strings as character sequences *)

Digits == <<"0", "1", "2", "3", "4", "5", "6", "7", "8", "9">>

IsDigit(c) == \E i \in 1..10 : Digits[i] = c

DigitVal(c) == (CHOOSE i \in 1..10 : Digits[i] = c) - 1

AllDigits(s) == \A i \in 1..Len(s) : IsDigit(s[i])

\* positions of character c in s
IndexesOf(s, c) == {i \in 1..Len(s) : s[i] = c}

Lowers == <<"a", "b", "c", "d", "g", "m", "t">>

Uppers == <<"A", "B", "C", "D", "G", "M", "T">>

\* unicode simple case folding, on the letters the model uses
FoldChar(c) == IF \E i \in 1..Len(Uppers) : Uppers[i] = c
               THEN Lowers[CHOOSE i \in 1..Len(Uppers) : Uppers[i] = c]
               ELSE c

\* EqualFold comparing the bytes as they are
ExactEqual(s, t) == s = t

\* strings.EqualFold
EqualFold(s, t) == /\ Len(s) = Len(t)
                   /\ \A i \in 1..Len(s) : FoldChar(s[i]) = FoldChar(t[i])

\* strings.Join
RECURSIVE Join(_, _)
Join(l, sep) == IF Len(l) = 0 THEN <<>>
                ELSE IF Len(l) = 1 THEN l[1]
                ELSE l[1] \o sep \o Join(Tail(l), sep)

\* strconv.Atoi on a string of digits: the value, or a range error when it
\* does not fit an int
RECURSIVE AtoiAcc(_, _)
AtoiAcc(s, acc) ==
    IF Len(s) = 0 THEN [ok |-> TRUE, n |-> acc]
    ELSE IF acc > (maxInt - DigitVal(s[1])) \div 10 THEN [ok |-> FALSE, n |-> 0]
    ELSE AtoiAcc(Tail(s), acc * 10 + DigitVal(s[1]))

Atoi(s) == IF Len(s) = 0 \/ ~AllDigits(s) THEN [ok |-> FALSE, n |-> 0]
           ELSE AtoiAcc(s, 0)

----------------------------------------------------------------------------
(* Errors and closures *)

NoErr == [kind |-> "nil", names |-> <<>>, text |-> <<>>]

Errorf(k, ns, t) == [kind |-> k, names |-> ns, text |-> t]

\* a failed type assertion or nil dereference
Panic(n) == Errorf("panic", <<n>>, <<>>)

\* what a processor or validator leaves behind: its return value and cl.Flags
Result(e, F) == [err |-> e, Flags |-> F]

NILFN == [fn |-> "nil", name |-> "", opts |-> <<>>]

Closure(f, n, o) == [fn |-> f, name |-> n, opts |-> o]

----------------------------------------------------------------------------
(* Package bytequantity: a quantity of mebibytes held in a uint64 *)

ToLimbs(n) == <<0, 0, n \div 65536, n % 65536>>

\* a > b on uint64 limbs
LimbsGT(a, b) == \E i \in 1..4 : /\ a[i] > b[i]
                                 /\ \A j \in 1..(i - 1) : a[j] = b[j]

ByteQuantityMe(q) == [kind |-> "bq", v |-> q]

\* ByteQuantity.MiB
MiB(bq) == bq.v

UnitSuffixes == {<<>>, <<"m", "b">>, <<"g", "b">>, <<"t", "b">>}

\* mebibytes per unit; a magnitude without a unit is in gibibytes
UnitMiB(u) == IF u = <<"m", "b">> THEN 1
              ELSE IF u = <<"t", "b">> THEN 1048576
              ELSE 1024

\* length of the leading run of digits of s
RECURSIVE DigitPrefix(_)
DigitPrefix(s) == IF Len(s) = 0 \/ ~IsDigit(s[1]) THEN 0
                  ELSE 1 + DigitPrefix(Tail(s))

\* whole mebibytes in the fraction 0.f of a unit of u mebibytes
RECURSIVE FractionMiB(_, _)
FractionMiB(f, u) == IF Len(f) = 0 THEN 0
                     ELSE (DigitVal(f[1]) * u + FractionMiB(Tail(f), u)) \div 10

\* bytequantity.ParseToByteQuantity: a decimal magnitude (digits, then an
\* optional point and fraction), then an optional unit
ParseToByteQuantity(s) ==
    LET k == DigitPrefix(s)
        mag == Atoi(SubSeq(s, 1, k))
        rest == SubSeq(s, k + 1, Len(s))
        point == Len(rest) > 0 /\ rest[1] = "."
        f == IF point THEN SubSeq(rest, 2, 1 + DigitPrefix(Tail(rest))) ELSE <<>>
        unit == IF point THEN SubSeq(rest, 2 + Len(f), Len(rest)) ELSE rest
    IN IF k = 0 \/ ~mag.ok \/ unit \notin UnitSuffixes
          \/ mag.n >= maxInt \div UnitMiB(unit)
       THEN [ok |-> FALSE, bq |-> NIL]
       ELSE [ok |-> TRUE,
             bq |-> ByteQuantityMe(ToLimbs(mag.n * UnitMiB(unit)
                                           + FractionMiB(f, UnitMiB(unit))))]

----------------------------------------------------------------------------
(* Library functions the processors call *)

\* regexp.Compile, reduced to what decides the error: the parentheses of the
\* expression must balance
RECURSIVE ParenDepth(_, _)
ParenDepth(s, d) == IF d < 0 THEN d
                    ELSE IF Len(s) = 0 THEN d
                    ELSE IF s[1] = "(" THEN ParenDepth(Tail(s), d + 1)
                    ELSE IF s[1] = ")" THEN ParenDepth(Tail(s), d - 1)
                    ELSE ParenDepth(Tail(s), d)

RegexpCompile(s) == IF ParenDepth(s, 0) = 0
                    THEN [ok |-> TRUE, re |-> [kind |-> "regexp", v |-> s]]
                    ELSE [ok |-> FALSE, re |-> NIL]

\* the invoking user's home directory
Home == <<"/", "h">>

\* homedir.Expand: a leading ~ becomes the home directory, ~user is refused
HomedirExpand(s) ==
    IF Len(s) = 0 \/ s[1] # "~" THEN [ok |-> TRUE, path |-> s]
    ELSE IF Len(s) > 1 /\ s[2] # "/" THEN [ok |-> FALSE, path |-> <<>>]
    ELSE [ok |-> TRUE, path |-> Home \o Tail(s)]

\* regexp.MatchString(`^[0-9]+:[0-9]+$`, s)
MatchRatio(s) ==
    /\ Cardinality(IndexesOf(s, ":")) = 1
    /\ LET i == CHOOSE j \in IndexesOf(s, ":") : TRUE
       IN /\ 1 < i /\ i < Len(s)
          /\ AllDigits(SubSeq(s, 1, i - 1))
          /\ AllDigits(SubSeq(s, i + 1, Len(s)))

----------------------------------------------------------------------------
(* The processors and validators the builders create.  Each takes the flag *)
(* name it closes over, the value it is called with and cl.Flags.          *)

\* RatioQuotient with the operands exchanged
RatioQuotientSwapped(memRatioVal, vcpusRatioVal) == FloatDiv(vcpusRatioVal, memRatioVal)

\* float64(memRatioVal) / float64(vcpusRatioVal)
RatioQuotient(memRatioVal, vcpusRatioVal) == FloatDiv(memRatioVal, vcpusRatioVal)

ratioValidator(name, val, F) ==
    IF val = NIL THEN Result(NoErr, F)
    ELSE IF val.kind # "string" THEN Result(Panic(name), F)
    ELSE IF ~MatchRatio(val.v)
    THEN Result(Errorf("InvalidRatio", <<name>>, <<>>), F)
    ELSE LET i == CHOOSE j \in IndexesOf(val.v, ":") : TRUE
             a == Atoi(SubSeq(val.v, 1, i - 1))
             b == Atoi(SubSeq(val.v, i + 1, Len(val.v)))
         IN IF ~a.ok \/ ~b.ok
            THEN Result(Errorf("RatioNotIntegers", <<name>>, <<>>), F)
            ELSE Result(NoErr, [F EXCEPT ![name] = Float64Me(RatioQuotient(b.n, a.n))])

\* GreaterThan with >= for >
GreaterOrEqual(kind, minVal, maxVal) ==
    IF kind = "float64" THEN ~FloatGT(maxVal.v, minVal.v)
    ELSE IF kind = "bq" THEN ~LimbsGT(MiB(maxVal), MiB(minVal))
    ELSE minVal.v >= maxVal.v

\* *minVal > *maxVal for the scalar kind of the triplet
GreaterThan(kind, minVal, maxVal) ==
    IF kind = "float64" THEN FloatGT(minVal.v, maxVal.v)
    ELSE IF kind = "bq" THEN LimbsGT(MiB(minVal), MiB(maxVal))
    ELSE minVal.v > maxVal.v

\* rangeValidator with && for || in the nil test
rangeValidatorBothNil(kind, name, F) ==
    LET minArg == name \o "-min"
        maxArg == name \o "-max"
    IN IF F[minArg] = NIL /\ F[maxArg] = NIL THEN Result(NoErr, F)
       ELSE IF F[minArg].kind # kind \/ F[maxArg].kind # kind
       THEN Result(Panic(name), F)
       ELSE IF GreaterThan(kind, F[minArg], F[maxArg])
       THEN Result(Errorf("RangeOrder", <<minArg, maxArg>>, <<>>), F)
       ELSE Result(NoErr, F)

\* the validator the four MinMaxRange builders install under the base name
rangeValidator(kind, name, F) ==
    LET minArg == name \o "-min"
        maxArg == name \o "-max"
    IN IF F[minArg] = NIL \/ F[maxArg] = NIL THEN Result(NoErr, F)
       ELSE IF F[minArg].kind # kind \/ F[maxArg].kind # kind
       THEN Result(Panic(name), F)
       ELSE IF GreaterThan(kind, F[minArg], F[maxArg])
       THEN Result(Errorf("RangeOrder", <<minArg, maxArg>>, <<>>), F)
       ELSE Result(NoErr, F)

byteQuantityProcessor(name, val, F) ==
    IF val = NIL THEN Result(NoErr, F)
    ELSE IF val.kind = "string"
    THEN LET r == ParseToByteQuantity(val.v)
         IN IF ~r.ok THEN Result(Errorf("CantParseByteQuantity", <<name>>, val.v), F)
            ELSE Result(NoErr, [F EXCEPT ![name] = r.bq])
    ELSE IF val.kind = "bq" THEN Result(NoErr, F)
    ELSE Result(Errorf("UnsupportedInputType", <<name>>, <<>>), F)

\* byteQuantityValidator without the nil test
byteQuantityValidatorNoNil(name, val, F) ==
    IF val.kind = "bq" THEN Result(NoErr, F)
    ELSE Result(Errorf("ProcessingFailed", <<name>>, <<>>), F)

byteQuantityValidator(name, val, F) ==
    IF val = NIL THEN Result(NoErr, F)
    ELSE IF val.kind = "bq" THEN Result(NoErr, F)
    ELSE Result(Errorf("ProcessingFailed", <<name>>, <<>>), F)

\* the message tail of the options validator: strings.Join(validOpts, ", ")
OptionsList(validOpts) == Join(validOpts, <<",", " ">>)

optionsValidator(name, validOpts, val, F) ==
    IF val = NIL THEN Result(NoErr, F)
    ELSE IF val.kind # "string" THEN Result(Panic(name), F)
    ELSE IF \E i \in 1..Len(validOpts) : EqualFold(validOpts[i], val.v)
    THEN Result(NoErr, F)
    ELSE Result(Errorf("MustBeOneOf", <<name>>, OptionsList(validOpts)), F)

regexProcessor(name, val, F) ==
    IF val = NIL THEN Result(NoErr, F)
    ELSE IF val.kind = "string"
    THEN LET r == RegexpCompile(val.v)
         IN IF ~r.ok THEN Result(Errorf("CantCompileRegex", <<name>>, <<>>), F)
            ELSE Result(NoErr, [F EXCEPT ![name] = r.re])
    ELSE IF val.kind = "regexp" THEN Result(NoErr, F)
    ELSE Result(Errorf("UnsupportedInputType", <<name>>, <<>>), F)

regexValidator(name, val, F) ==
    IF val = NIL THEN Result(NoErr, F)
    ELSE IF val.kind = "regexp" THEN Result(NoErr, F)
    ELSE Result(Errorf("ProcessingFailed", <<name>>, <<>>), F)

pathProcessor(name, val, F) ==
    IF val = NIL THEN Result(NoErr, F)
    ELSE IF val.kind = "string"
    THEN LET r == HomedirExpand(val.v)
         IN IF ~r.ok THEN Result(Errorf("CantExpandPath", <<name>>, <<>>), F)
            ELSE Result(NoErr, [F EXCEPT ![name] = StringMe(r.path)])
    ELSE Result(Errorf("UnsupportedInputType", <<name>>, <<>>), F)

\* calling the function value c with val
Call(c, val, F) ==
    CASE c.fn = "ratioValidator" -> ratioValidator(c.name, val, F)
      [] c.fn = "intRange" -> rangeValidator("int", c.name, F)
      [] c.fn = "int32Range" -> rangeValidator("int32", c.name, F)
      [] c.fn = "float64Range" -> rangeValidator("float64", c.name, F)
      [] c.fn = "byteQuantityRange" -> rangeValidator("bq", c.name, F)
      [] c.fn = "byteQuantityProcessor" -> byteQuantityProcessor(c.name, val, F)
      [] c.fn = "byteQuantityValidator" -> byteQuantityValidator(c.name, val, F)
      [] c.fn = "optionsValidator" -> optionsValidator(c.name, c.opts, val, F)
      [] c.fn = "regexProcessor" -> regexProcessor(c.name, val, F)
      [] c.fn = "regexValidator" -> regexValidator(c.name, val, F)
      [] c.fn = "pathProcessor" -> pathProcessor(c.name, val, F)

----------------------------------------------------------------------------
(* ByteQuantity.StringGiB: the quantity as a decimal number of gibibytes *)

RECURSIVE Itoa(_)
Itoa(n) == IF n < 10 THEN <<Digits[n + 1]>>
           ELSE Itoa(n \div 10) \o <<Digits[(n % 10) + 1]>>

\* the digits of r/1024 after the decimal point, r < 1024 (at most ten)
RECURSIVE FractionDigits(_)
FractionDigits(r) == IF r = 0 THEN <<>>
                     ELSE <<Digits[((r * 10) \div 1024) + 1]>>
                          \o FractionDigits((r * 10) % 1024)

FromLimbs(l) == l[3] * 65536 + l[4]

\* StringGiB keeping three digits after the point
StringGiBMilli(bq) ==
    LET n == FromLimbs(MiB(bq))
        f == FractionDigits(n % 1024)
    IN IF n % 1024 = 0 THEN Itoa(n \div 1024)
       ELSE Itoa(n \div 1024) \o <<".">> \o SubSeq(f, 1, IF Len(f) < 3 THEN Len(f) ELSE 3)

StringGiB(bq) ==
    LET n == FromLimbs(MiB(bq))
    IN IF n % 1024 = 0 THEN Itoa(n \div 1024)
       ELSE Itoa(n \div 1024) \o <<".">> \o FractionDigits(n % 1024)

----------------------------------------------------------------------------
(* The registry cl and the builders *)

RangeNames == {"vcpus", "gpus", "price", "memory"}

Names == {"ratio", "arch", "disk", "allow", "out", "verbose", "count", "regions"}
         \cup RangeNames
         \cup {n \o "-min" : n \in RangeNames}
         \cup {n \o "-max" : n \in RangeNames}

\* the state New() leaves
EmptyCl == [Flags |-> [n \in Names |-> NIL],
            nilDefaults |-> {},
            processors |-> [n \in Names |-> NILFN],
            validators |-> [n \in Names |-> NILFN],
            rangeFlags |-> {},
            flagSet |-> <<>>,
            defValue |-> [n \in Names |-> NIL]]

\* flagSet.Int(name, *defaultValue, ...) and its siblings: the flag joins the
\* flag set and cl.Flags[name] points at its value, initially the default
AddFlag(c, name, def) ==
    [c EXCEPT !.Flags[name] = def,
              !.flagSet = Append(@, name),
              !.defValue[name] = def]

\* WithDefault without the entry in nilDefaults
WithDefaultUntracked(c, name, defaultValue, zero) ==
    IF defaultValue = NIL
    THEN AddFlag(c, name, zero)
    ELSE AddFlag(c, name, defaultValue)

\* if defaultValue == nil { cl.nilDefaults[name] = true; defaultValue = zero }
WithDefault(c, name, defaultValue, zero) ==
    IF defaultValue = NIL
    THEN AddFlag([c EXCEPT !.nilDefaults = @ \cup {name}], name, zero)
    ELSE AddFlag(c, name, defaultValue)

BoolFlagOnFlagSet(c, name, defaultValue) ==
    WithDefault(c, name, defaultValue, BoolMe(FALSE))

IntFlagOnFlagSet(c, name, defaultValue) ==
    WithDefault(c, name, defaultValue, IntMe(0))

Int32FlagOnFlagSet(c, name, defaultValue) ==
    WithDefault(c, name, defaultValue, Int32Me(0))

Float64FlagOnFlagSet(c, name, defaultValue) ==
    WithDefault(c, name, defaultValue, Float64Me(Finite(0, 1)))

StringSliceFlagOnFlagSet(c, name, defaultValue) ==
    WithDefault(c, name, defaultValue, SliceMe(<<>>))

StringFlagOnFlagSet(c, name, defaultValue, processorFn, validationFn) ==
    [WithDefault(c, name, defaultValue, StringMe(<<>>))
        EXCEPT !.processors[name] = processorFn,
               !.validators[name] = validationFn]

RatioFlag(c, name, defaultValue) ==
    [WithDefault(c, name, defaultValue, StringMe(<<>>))
        EXCEPT !.validators[name] = Closure("ratioValidator", name, <<>>)]

StringOptionsFlagOnFlagSet(c, name, defaultValue, validOpts) ==
    StringFlagOnFlagSet(c, name, defaultValue, NILFN,
                        Closure("optionsValidator", name, validOpts))

ByteQuantityFlagOnFlagSet(c, name, defaultValue) ==
    LET stringDefaultValue == IF defaultValue # NIL
                              THEN StringMe(StringGiB(defaultValue))
                              ELSE NIL
    IN StringFlagOnFlagSet(c, name, stringDefaultValue,
                           Closure("byteQuantityProcessor", name, <<>>),
                           Closure("byteQuantityValidator", name, <<>>))

RegexFlagOnFlagSet(c, name, defaultValue) ==
    StringFlagOnFlagSet(c, name, defaultValue,
                        Closure("regexProcessor", name, <<>>),
                        Closure("regexValidator", name, <<>>))

PathFlagOnFlagSet(c, name, defaultValue) ==
    StringFlagOnFlagSet(c, name, defaultValue,
                        Closure("pathProcessor", name, <<>>), NILFN)

\* the tail every MinMaxRange builder shares: the range check becomes the
\* validator of the base name, which is marked a range flag
WithRangeCheck(c, name, fn) ==
    [c EXCEPT !.validators[name] = Closure(fn, name, <<>>),
              !.rangeFlags = @ \cup {name}]

IntMinMaxRangeFlagOnFlagSet(c, name, defaultValue) ==
    LET c1 == IntFlagOnFlagSet(c, name, defaultValue)
        c2 == IntFlagOnFlagSet(c1, name \o "-min", NIL)
        c3 == IntFlagOnFlagSet(c2, name \o "-max", NIL)
    IN WithRangeCheck(c3, name, "intRange")

Int32MinMaxRangeFlagOnFlagSet(c, name, defaultValue) ==
    LET c1 == Int32FlagOnFlagSet(c, name, defaultValue)
        c2 == Int32FlagOnFlagSet(c1, name \o "-min", NIL)
        c3 == Int32FlagOnFlagSet(c2, name \o "-max", NIL)
    IN WithRangeCheck(c3, name, "int32Range")

Float64MinMaxRangeFlagOnFlagSet(c, name, defaultValue) ==
    LET c1 == Float64FlagOnFlagSet(c, name, defaultValue)
        c2 == Float64FlagOnFlagSet(c1, name \o "-min", NIL)
        c3 == Float64FlagOnFlagSet(c2, name \o "-max", NIL)
    IN WithRangeCheck(c3, name, "float64Range")

ByteQuantityMinMaxRangeFlagOnFlagSet(c, name, defaultValue) ==
    LET c1 == ByteQuantityFlagOnFlagSet(c, name, defaultValue)
        c2 == ByteQuantityFlagOnFlagSet(c1, name \o "-min", NIL)
        c3 == ByteQuantityFlagOnFlagSet(c2, name \o "-max", NIL)
    IN WithRangeCheck(c3, name, "byteQuantityRange")

----------------------------------------------------------------------------
(* What the tool author registers and what the user types *)

UNSET == [kind |-> "unset"]

Str(s) == StringMe(s)

RatioInputs == {<<"1", ":", "2">>, <<"2", ":", "1">>, <<"0", ":", "5">>,
                <<"0", ":", "0">>, <<"a", "b", "c">>, <<"1", "-", "2">>,
                <<"3", "0", "0", "0", "0", "0", "0", "0", "0", "0", ":", "1">>}

OptionLists == {<<<<"a">>, <<"b">>, <<"c">>>>, <<>>}

GiB2 == ByteQuantityMe(ToLimbs(2048))

\* a default of one and a half gibibytes, and one a mebibyte short of a gibibyte
MiB1536 == ByteQuantityMe(ToLimbs(1536))

MiB1023 == ByteQuantityMe(ToLimbs(1023))

\* the explicit defaults a builder may be given, NIL for none
Defaults(name) ==
    CASE name = "disk" -> {NIL, GiB2, MiB1536, MiB1023}
      [] name = "verbose" -> {NIL, BoolMe(TRUE)}
      [] name = "count" -> {NIL, IntMe(3)}
      [] name = "regions" -> {NIL, SliceMe(<<"d">>)}
      [] OTHER -> {NIL}

\* the values the user may give a flag on the command line
UserValues(name) ==
    CASE name = "ratio" -> {Str(s) : s \in RatioInputs}
      [] name = "arch" -> {Str(<<"B">>), Str(<<"d">>)}
      [] name = "disk" -> {Str(<<"1", "g", "b">>), Str(<<"5", "x">>)}
      [] name = "allow" -> {Str(<<"^", "a", ".", "*", "z", "$">>), Str(<<"(", "a">>)}
      [] name = "out" -> {Str(<<"~", "/", "d">>), Str(<<"/", "a">>), Str(<<"~", "u">>)}
      [] name = "verbose" -> {BoolMe(FALSE)}
      [] name = "count" -> {IntMe(0)}
      [] name = "regions" -> {SliceMe(<<"r">>)}
      [] name = "vcpus" -> {IntMe(4)}
      [] name = "vcpus-min" -> {IntMe(0), IntMe(2)}
      [] name = "vcpus-max" -> {IntMe(-1), IntMe(0), IntMe(1)}
      [] name = "gpus" -> {Int32Me(4)}
      [] name = "gpus-min" -> {Int32Me(0), Int32Me(2)}
      [] name = "gpus-max" -> {Int32Me(0), Int32Me(1)}
      [] name = "price" -> {Float64Me(Finite(1, 1))}
      [] name = "price-min" -> {Float64Me(Finite(0, 1)), Float64Me(Finite(3, 2))}
      [] name = "price-max" -> {Float64Me(Finite(0, 1)), Float64Me(Finite(1, 2))}
      [] name = "memory" -> {Str(<<"4", "g", "b">>)}
      [] name = "memory-min" -> {Str(<<"1", "0", "2", "4", "m", "b">>), Str(<<"2", "g", "b">>)}
      [] name = "memory-max" -> {Str(<<"1", "g", "b">>), Str(<<"1", "5", "3", "6", "m", "b">>)}

\* every command line over the registered flags, one entry per flag
RECURSIVE ArgLists(_)
ArgLists(names) ==
    IF names = <<>> THEN {<<>>}
    ELSE {<<a>> \o rest : a \in UserValues(Head(names)) \cup {UNSET},
                          rest \in ArgLists(Tail(names))}

Registered(c) == {c.flagSet[i] : i \in 1..Len(c.flagSet)}

Position(c, name) == CHOOSE i \in 1..Len(c.flagSet) : c.flagSet[i] = name

----------------------------------------------------------------------------
(* The parse and pipeline pass *)

\* the registry after the parser consumed the command line: a flag the user
\* set holds the given value, an untouched flag recorded in nilDefaults is
\* nil, any other untouched flag holds its default
ParsedFlags(c, a) ==
    [n \in Names |->
        IF n \notin Registered(c) THEN NIL
        ELSE IF a[n] # UNSET THEN a[n]
        ELSE IF n \in c.nilDefaults THEN NIL
        ELSE c.defValue[n]]

\* RunFlag running the validator stored under a range flag with the flag
RunFlagEarlyRange(c, name) ==
    LET p == c.processors[name]
        v == c.validators[name]
        r1 == IF p = NILFN THEN Result(NoErr, c.Flags)
              ELSE Call(p, c.Flags[name], c.Flags)
    IN IF r1.err # NoErr THEN [err |-> r1.err, Flags |-> r1.Flags, ran |-> {}]
       ELSE IF v = NILFN
       THEN [err |-> NoErr, Flags |-> r1.Flags, ran |-> {}]
       ELSE LET r2 == Call(v, r1.Flags[name], r1.Flags)
            IN [err |-> r2.err, Flags |-> r2.Flags,
                ran |-> IF name \in c.rangeFlags THEN {name} ELSE {}]

\* the per-flag pipeline of one flag: processor, then validator.  The
\* validator stored under a range flag is the triplet's range check, which
\* belongs to the reconciliation pass.
RunFlag(c, name) ==
    LET p == c.processors[name]
        v == c.validators[name]
        r1 == IF p = NILFN THEN Result(NoErr, c.Flags)
              ELSE Call(p, c.Flags[name], c.Flags)
    IN IF r1.err # NoErr THEN [err |-> r1.err, Flags |-> r1.Flags, ran |-> {}]
       ELSE IF v = NILFN \/ name \in c.rangeFlags
       THEN [err |-> NoErr, Flags |-> r1.Flags, ran |-> {}]
       ELSE LET r2 == Call(v, r1.Flags[name], r1.Flags)
            IN [err |-> r2.err, Flags |-> r2.Flags,
                ran |-> IF name \in c.rangeFlags THEN {name} ELSE {}]

\* the range flags in registration order
RangeList(c) == SelectSeq(c.flagSet, LAMBDA n : n \in c.rangeFlags)

\* SetBoundsFromBase setting the lower bound only
SetMinFromBase(F, name) ==
    IF F[name] # NIL /\ F[name \o "-min"] = NIL /\ F[name \o "-max"] = NIL
    THEN [F EXCEPT ![name \o "-min"] = F[name]]
    ELSE F

\* --X alone sets both bounds
SetBoundsFromBase(F, name) ==
    IF F[name] # NIL /\ F[name \o "-min"] = NIL /\ F[name \o "-max"] = NIL
    THEN [F EXCEPT ![name \o "-min"] = F[name], ![name \o "-max"] = F[name]]
    ELSE F

\* the lower and upper bound of the scalar kind of a range validator
TypeMin(fn) ==
    CASE fn = "intRange" -> IntMe(0)
      [] fn = "int32Range" -> Int32Me(0)
      [] fn = "float64Range" -> Float64Me(Finite(0, 1))
      [] fn = "byteQuantityRange" -> ByteQuantityMe(ToLimbs(0))

TypeMax(fn) ==
    CASE fn = "intRange" -> IntMe(maxInt)
      [] fn = "int32Range" -> Int32Me(max32Int)
      [] fn = "float64Range" -> Float64Me(MaxFloat64)
      [] fn = "byteQuantityRange" -> ByteQuantityMe(maxUint64)

\* a bound the user left out is unbounded
RangeDefaults(F, name, fn) ==
    [F EXCEPT ![name \o "-min"] = IF @ = NIL THEN TypeMin(fn) ELSE @,
              ![name \o "-max"] = IF @ = NIL THEN TypeMax(fn) ELSE @]

\* reconciliation of one triplet: bounds from the base flag, the ordering
\* check, then the unbounded defaults
ReconcileRange(c, name) ==
    LET F1 == SetBoundsFromBase(c.Flags, name)
        r == Call(c.validators[name], F1[name], F1)
    IN IF r.err # NoErr THEN r
       ELSE Result(NoErr, RangeDefaults(r.Flags, name, c.validators[name].fn))

\* where the pass stands once the flag at position i - 1 is settled
AfterFlag(c, i) == IF i <= Len(c.flagSet) THEN "pipeline"
                   ELSE IF Len(RangeList(c)) > 0 THEN "reconcile"
                   ELSE "done"

----------------------------------------------------------------------------
(* State machine *)

Init == /\ cl = EmptyCl
        /\ calls = <<>>
        /\ args = [n \in Names |-> UNSET]
        /\ pc = "register"
        /\ idx = 0
        /\ err = NoErr
        /\ checked = {}

\* a builder may be called while the tool is being set up; the flag set
\* refuses a name twice
CanRegister(name) == /\ pc = "register"
                     /\ Len(calls) < MaxCalls
                     /\ name \notin Registered(cl)

\* the model registers one range triplet at most
CanRegisterRange(name) == CanRegister(name) /\ cl.rangeFlags = {}

Called(builder, name, d) ==
    /\ calls' = Append(calls, [builder |-> builder, name |-> name, default |-> d])
    /\ UNCHANGED <<args, pc, idx, err, checked>>

RatioFlagCall ==
    \E d \in Defaults("ratio") :
        /\ CanRegister("ratio")
        /\ cl' = RatioFlag(cl, "ratio", d)
        /\ Called("RatioFlag", "ratio", d)

IntMinMaxRangeFlags ==
    \E d \in Defaults("vcpus") :
        /\ CanRegisterRange("vcpus")
        /\ cl' = IntMinMaxRangeFlagOnFlagSet(cl, "vcpus", d)
        /\ Called("IntMinMaxRangeFlags", "vcpus", d)

Int32MinMaxRangeFlags ==
    \E d \in Defaults("gpus") :
        /\ CanRegisterRange("gpus")
        /\ cl' = Int32MinMaxRangeFlagOnFlagSet(cl, "gpus", d)
        /\ Called("Int32MinMaxRangeFlags", "gpus", d)

Float64MinMaxRangeFlags ==
    \E d \in Defaults("price") :
        /\ CanRegisterRange("price")
        /\ cl' = Float64MinMaxRangeFlagOnFlagSet(cl, "price", d)
        /\ Called("Float64MinMaxRangeFlags", "price", d)

ByteQuantityMinMaxRangeFlags ==
    \E d \in Defaults("memory") :
        /\ CanRegisterRange("memory")
        /\ cl' = ByteQuantityMinMaxRangeFlagOnFlagSet(cl, "memory", d)
        /\ Called("ByteQuantityMinMaxRangeFlags", "memory", d)

ByteQuantityFlag ==
    \E d \in Defaults("disk") :
        /\ CanRegister("disk")
        /\ cl' = ByteQuantityFlagOnFlagSet(cl, "disk", d)
        /\ Called("ByteQuantityFlag", "disk", d)

IntFlag ==
    \E d \in Defaults("count") :
        /\ CanRegister("count")
        /\ cl' = IntFlagOnFlagSet(cl, "count", d)
        /\ Called("IntFlag", "count", d)

BoolFlag ==
    \E d \in Defaults("verbose") :
        /\ CanRegister("verbose")
        /\ cl' = BoolFlagOnFlagSet(cl, "verbose", d)
        /\ Called("BoolFlag", "verbose", d)

StringSliceFlag ==
    \E d \in Defaults("regions") :
        /\ CanRegister("regions")
        /\ cl' = StringSliceFlagOnFlagSet(cl, "regions", d)
        /\ Called("StringSliceFlag", "regions", d)

RegexFlag ==
    \E d \in Defaults("allow") :
        /\ CanRegister("allow")
        /\ cl' = RegexFlagOnFlagSet(cl, "allow", d)
        /\ Called("RegexFlag", "allow", d)

PathFlag ==
    \E d \in Defaults("out") :
        /\ CanRegister("out")
        /\ cl' = PathFlagOnFlagSet(cl, "out", d)
        /\ Called("PathFlag", "out", d)

StringOptionsFlag ==
    \E d \in Defaults("arch"), validOpts \in OptionLists :
        /\ CanRegister("arch")
        /\ cl' = StringOptionsFlagOnFlagSet(cl, "arch", d, validOpts)
        /\ Called("StringOptionsFlag", "arch", d)

\* the parser consumes the command line
Parse ==
    /\ pc = "register"
    /\ Len(cl.flagSet) > 0
    /\ \E al \in ArgLists(cl.flagSet) :
          LET a == [n \in Names |-> IF n \in Registered(cl)
                                    THEN al[Position(cl, n)] ELSE UNSET]
          IN /\ args' = a
             /\ cl' = [cl EXCEPT !.Flags = ParsedFlags(cl, a)]
    /\ pc' = "pipeline"
    /\ idx' = 1
    /\ UNCHANGED <<calls, err, checked>>

\* the per-flag pipeline of the next flag in registration order
PipelineStep ==
    /\ pc = "pipeline"
    /\ err = NoErr
    /\ LET r == RunFlag(cl, cl.flagSet[idx])
       IN /\ cl' = [cl EXCEPT !.Flags = r.Flags]
          /\ err' = r.err
          /\ checked' = checked \cup r.ran
          /\ IF r.err = NoErr
             THEN idx' = idx + 1 /\ pc' = AfterFlag(cl, idx + 1)
             ELSE UNCHANGED <<idx, pc>>
    /\ UNCHANGED <<calls, args>>

\* the reconciliation of the next range triplet
ReconcileStep ==
    /\ pc = "reconcile"
    /\ err = NoErr
    /\ LET name == RangeList(cl)[idx - Len(cl.flagSet)]
           r == ReconcileRange(cl, name)
       IN /\ cl' = [cl EXCEPT !.Flags = r.Flags]
          /\ err' = r.err
          /\ checked' = checked \cup {name}
          /\ IF r.err = NoErr
             THEN /\ idx' = idx + 1
                  /\ pc' = IF idx - Len(cl.flagSet) < Len(RangeList(cl))
                           THEN "reconcile" ELSE "done"
             ELSE UNCHANGED <<idx, pc>>
    /\ UNCHANGED <<calls, args>>

Next == \/ RatioFlagCall
        \/ IntMinMaxRangeFlags
        \/ Int32MinMaxRangeFlags
        \/ Float64MinMaxRangeFlags
        \/ ByteQuantityMinMaxRangeFlags
        \/ ByteQuantityFlag
        \/ IntFlag
        \/ BoolFlag
        \/ StringSliceFlag
        \/ RegexFlag
        \/ PathFlag
        \/ StringOptionsFlag
        \/ Parse
        \/ PipelineStep
        \/ ReconcileStep

Spec == Init /\ [][Next]_vars

----------------------------------------------------------------------------
(* Vocabulary of the properties *)

MinOf(X) == X \o "-min"

MaxOf(X) == X \o "-max"

\* the value the pipeline was handed for flag n
Raw(n) == ParsedFlags(cl, args)[n]

\* the per-flag pipeline of n has completed
Settled(n) == /\ pc # "register"
              /\ n \in Registered(cl)
              /\ Position(cl, n) < idx

\* the per-flag pipeline of n has run, to completion or to its failure
Attempted(n) == /\ pc # "register"
                /\ n \in Registered(cl)
                /\ \/ Position(cl, n) < idx
                   \/ Position(cl, n) = idx /\ err # NoErr

\* mebibytes of the byte quantities the user may type
ExpectedMiB(s) ==
    CASE s = <<"1", "g", "b">> -> 1024
      [] s = <<"2", "g", "b">> -> 2048
      [] s = <<"4", "g", "b">> -> 4096
      [] s = <<"1", "0", "2", "4", "m", "b">> -> 1024
      [] s = <<"1", "5", "3", "6", "m", "b">> -> 1536

\* the user gave X-min a greater value than X-max
UserMinAboveMax(X) ==
    LET lo == args[MinOf(X)]
        hi == args[MaxOf(X)]
    IN CASE lo.kind = "float64" -> lo.v.num * hi.v.den > hi.v.num * lo.v.den
         [] lo.kind = "string" -> ExpectedMiB(lo.v) > ExpectedMiB(hi.v)
         [] OTHER -> lo.v > hi.v

BothSupplied(X) == args[MinOf(X)] # UNSET /\ args[MaxOf(X)] # UNSET

----------------------------------------------------------------------------
(* C1: with both X-min and X-max given, the range check of every kind of   *)
(* triplet fails, naming --X-min and --X-max, exactly when min > max;      *)
(* equal bounds and min < max pass.                                        *)

C1_RangeOrderIffMinAboveMax ==
    \A X \in checked :
        BothSupplied(X) =>
            /\ err.kind \in {"nil", "RangeOrder"}
            /\ (err.kind = "RangeOrder") <=> UserMinAboveMax(X)
            /\ err.kind = "RangeOrder" => err.names = <<MinOf(X), MaxOf(X)>>

C1_Witness ==
    /\ "memory" \in checked
    /\ args["memory-min"] = Str(<<"2", "g", "b">>)
    /\ args["memory-max"] = Str(<<"1", "5", "3", "6", "m", "b">>)
    /\ err.kind = "RangeOrder"

(* C2: when the user leaves out X-min or X-max, the range check succeeds   *)
(* whatever the other bound and the base flag hold.                        *)

C2_NoCheckWhenBoundUnset ==
    \A X \in checked :
        (args[MinOf(X)] = UNSET \/ args[MaxOf(X)] = UNSET) => err = NoErr

C2_Witness ==
    /\ "vcpus" \in checked
    /\ args["vcpus-min"] = IntMe(2)
    /\ args["vcpus-max"] = UNSET
    /\ err = NoErr

(* C3: the range check of a triplet runs only once the per-flag pipelines  *)
(* of X, X-min and X-max have completed, and it never finds a value of     *)
(* another kind than the triplet's (no raw string for a byte quantity).    *)

----------------------------------------------------------------------------
(* Ratio flag *)

\* the two components of a string that matches the ratio grammar
FirstPart(s) == SubSeq(s, 1, (CHOOSE j \in IndexesOf(s, ":") : TRUE) - 1)

SecondPart(s) == SubSeq(s, (CHOOSE j \in IndexesOf(s, ":") : TRUE) + 1, Len(s))

IsZero(t) == \A i \in 1..Len(t) : t[i] = "0"

\* the pipeline of the ratio flag ran on a string
RatioRan == Attempted("ratio") /\ Raw("ratio") # NIL

RatioFailed == /\ ~Settled("ratio")
               /\ err # NoErr
               /\ err.names = <<"ratio">>

(* C4: a ratio that matches the grammar with a zero first component is     *)
(* rejected: the validator returns an error and the registry value never   *)
(* becomes an infinite or undefined quotient.                              *)

C4_ZeroFirstComponentRejected ==
    (RatioRan /\ MatchRatio(Raw("ratio").v) /\ IsZero(FirstPart(Raw("ratio").v)))
        => /\ RatioFailed
           /\ cl.Flags["ratio"] = Raw("ratio")

(* C5 as stated: every "a:b" of the grammar with a > 0 validates and is    *)
(* replaced by b/a; every other string fails, naming the flag, and stays.  *)

C5_EveryPositiveRatioAccepted ==
    RatioRan =>
        LET s == Raw("ratio").v
        IN /\ (MatchRatio(s) /\ ~IsZero(FirstPart(s)))
                => /\ Settled("ratio")
                   /\ cl.Flags["ratio"].kind = "float64"
           /\ ~MatchRatio(s)
                => /\ RatioFailed
                   /\ cl.Flags["ratio"] = Raw("ratio")

(* C5 amended: "a:b" of the grammar with a > 0 and both a and b within the *)
(* range of int validates and the registry value becomes the quotient b/a  *)
(* ("1:2" gives 2, "2:1" gives 1/2); a string outside the grammar fails    *)
(* with an error naming the flag and the registry value stays the raw      *)
(* string.                                                                 *)

C5_RatioQuotientStored ==
    RatioRan =>
        LET s == Raw("ratio").v
        IN /\ (MatchRatio(s) /\ ~IsZero(FirstPart(s))
                 /\ Atoi(FirstPart(s)).ok /\ Atoi(SecondPart(s)).ok)
                => /\ Settled("ratio")
                   /\ cl.Flags["ratio"].kind = "float64"
                   /\ cl.Flags["ratio"].v.cls = "finite"
                   /\ cl.Flags["ratio"].v.num * Atoi(FirstPart(s)).n
                        = cl.Flags["ratio"].v.den * Atoi(SecondPart(s)).n
           /\ s = <<"1", ":", "2">>
                => cl.Flags["ratio"] = Float64Me([cls |-> "finite", num |-> 2, den |-> 1])
           /\ s = <<"2", ":", "1">>
                => cl.Flags["ratio"] = Float64Me([cls |-> "finite", num |-> 1, den |-> 2])
           /\ ~MatchRatio(s)
                => /\ RatioFailed
                   /\ err.kind = "InvalidRatio"
                   /\ cl.Flags["ratio"] = Raw("ratio")

C5_Witness ==
    /\ Settled("ratio")
    /\ Raw("ratio") = Str(<<"2", ":", "1">>)
    /\ cl.Flags["ratio"].kind = "float64"

----------------------------------------------------------------------------
(* String-options flag *)

CasePairs == {{"a", "A"}, {"b", "B"}, {"c", "C"}, {"d", "D"}}

SameIgnoringCase(s, t) ==
    /\ Len(s) = Len(t)
    /\ \A i \in 1..Len(s) : s[i] = t[i] \/ {s[i], t[i]} \in CasePairs

\* the allow-list, entries separated by a comma and a space
ExpectedListing(L) ==
    IF L = <<>> THEN <<>>
    ELSE <<"a", ",", " ", "b", ",", " ", "c">>

(* C6: a non-nil value of a string-options flag validates exactly when it  *)
(* equals an entry of the allow-list ignoring case; otherwise the error    *)
(* names the flag and lists the allow-list in order.  With an empty        *)
(* allow-list every non-nil value fails.                                   *)

C6_OptionsMembership ==
    (Attempted("arch") /\ Raw("arch") # NIL) =>
        LET L == cl.validators["arch"].opts
            v == Raw("arch").v
        IN /\ Settled("arch") <=> \E i \in 1..Len(L) : SameIgnoringCase(L[i], v)
           /\ ~Settled("arch")
                => /\ err.kind = "MustBeOneOf"
                   /\ err.names = <<"arch">>
                   /\ err.text = ExpectedListing(L)
           /\ L = <<>> => ~Settled("arch")

C6_Witness ==
    /\ Settled("arch")
    /\ Raw("arch") = Str(<<"B">>)
    /\ Len(cl.validators["arch"].opts) = 3

----------------------------------------------------------------------------
(* Unset defaults *)

RangeBuilders == {"IntMinMaxRangeFlags", "Int32MinMaxRangeFlags",
                  "Float64MinMaxRangeFlags", "ByteQuantityMinMaxRangeFlags"}

\* the parser has run and no pipeline yet
JustParsed == pc = "pipeline" /\ idx = 1 /\ err = NoErr

(* C7: a flag name is in nilDefaults exactly when its builder was given no *)
(* explicit default (always so for the -min and -max flags of a triplet,   *)
(* not so for a byte-quantity flag with an explicit default); after        *)
(* parsing, such a flag is nil in the registry exactly when the user did   *)
(* not set it, so an unset flag differs from one set to the zero value.    *)

C7_NilDefaultsTracked ==
    /\ \A i \in 1..Len(calls) :
          /\ calls[i].name \in cl.nilDefaults <=> calls[i].default = NIL
          /\ calls[i].builder \in RangeBuilders
                => {MinOf(calls[i].name), MaxOf(calls[i].name)} \subseteq cl.nilDefaults
    /\ cl.nilDefaults \subseteq Registered(cl)
    /\ JustParsed => \A n \in cl.nilDefaults :
                        /\ args[n] = UNSET <=> cl.Flags[n] = NIL
                        /\ args[n] # UNSET => cl.Flags[n] = args[n]

C7_Witness ==
    /\ JustParsed
    /\ "count" \in cl.nilDefaults
    /\ args["count"] = IntMe(0)
    /\ cl.Flags["count"] = IntMe(0)
    /\ "disk" \in Registered(cl)
    /\ "disk" \notin cl.nilDefaults
    /\ args["disk"] = UNSET
    /\ cl.Flags["disk"] # NIL

----------------------------------------------------------------------------
(* Bounds of a reconciled triplet *)

\* the triplet X has been reconciled without error
Reconciled(X) == X \in checked /\ err = NoErr

\* the resolved form of a value the user typed
Resolved(a) == IF a.kind = "string" THEN ByteQuantityMe(ToLimbs(ExpectedMiB(a.v)))
               ELSE a

BaseAlone(X) == /\ args[X] # UNSET
                /\ args[MinOf(X)] = UNSET
                /\ args[MaxOf(X)] = UNSET

ZeroOf(X) == CASE X = "vcpus" -> [kind |-> "int", v |-> 0]
               [] X = "gpus" -> [kind |-> "int32", v |-> 0]
               [] X = "price" -> [kind |-> "float64",
                                  v |-> [cls |-> "finite", num |-> 0, den |-> 1]]
               [] X = "memory" -> [kind |-> "bq", v |-> <<0, 0, 0, 0>>]

MaximumOf(X) == CASE X = "vcpus" -> [kind |-> "int", v |-> 2147483647]
                  [] X = "gpus" -> [kind |-> "int32", v |-> 2147483647]
                  [] X = "price" -> [kind |-> "float64",
                                     v |-> [cls |-> "max", num |-> 0, den |-> 1]]
                  [] X = "memory" -> [kind |-> "bq", v |-> <<65535, 65535, 65535, 65535>>]

(* C8: when the user gives --X and neither --X-min nor --X-max, both       *)
(* bounds resolve to the value given for X.                                *)

C8_BaseSetsBothBounds ==
    \A X \in checked :
        BaseAlone(X) =>
            /\ err = NoErr
            /\ cl.Flags[MinOf(X)] = Resolved(args[X])
            /\ cl.Flags[MaxOf(X)] = Resolved(args[X])

C8_Witness ==
    /\ "memory" \in checked
    /\ BaseAlone("memory")
    /\ cl.Flags["memory-min"] = ByteQuantityMe(ToLimbs(4096))
    /\ cl.Flags["memory-max"] = ByteQuantityMe(ToLimbs(4096))

(* C9: a bound the user leaves out takes the unbounded default, 0 for      *)
(* X-min and the maximum of the type for X-max: giving only --X-min leaves *)
(* the upper bound at the type's maximum, giving neither leaves 0 and the  *)
(* type's maximum.                                                         *)

----------------------------------------------------------------------------
(* C10: when a processor, a validator or a range check returns an error,   *)
(* the registry holds no flag in its processed form: it is the registry    *)
(* the parser left.                                                        *)

C10_NoPartialStateOnFailure ==
    err # NoErr => cl.Flags = ParsedFlags(cl, args)

----------------------------------------------------------------------------
(* C11: a ByteQuantity formatted as a gibibyte string parses back to the   *)
(* same magnitude, so a byte-quantity flag registered with the explicit    *)
(* default d and not set by the user resolves to a ByteQuantity of the     *)
(* magnitude of d.                                                         *)

----------------------------------------------------------------------------
(* C12: every validator the builders register is a pure predicate: when   *)
(* the pipeline runs the validator of a flag on the value its processor   *)
(* left, or the reconciliation runs the range check of a triplet, the     *)
(* registry values are the same after the call as before it, whether the  *)
(* call succeeds or fails.                                                *)

\* the registry the validator of the next flag is called with
BeforeValidator ==
    LET n == cl.flagSet[idx]
        p == cl.processors[n]
    IN IF p = NILFN THEN Result(NoErr, cl.Flags) ELSE Call(p, cl.Flags[n], cl.Flags)

C12_ValidatorsArePure ==
    /\ (pc = "pipeline" /\ err = NoErr) =>
          LET n == cl.flagSet[idx]
              v == cl.validators[n]
              r1 == BeforeValidator
          IN (r1.err = NoErr /\ v # NILFN /\ n \notin cl.rangeFlags)
                => Call(v, r1.Flags[n], r1.Flags).Flags = r1.Flags
    /\ (pc = "reconcile" /\ err = NoErr) =>
          LET X == RangeList(cl)[idx - Len(cl.flagSet)]
              F1 == SetBoundsFromBase(cl.Flags, X)
          IN Call(cl.validators[X], F1[X], F1).Flags = F1

----------------------------------------------------------------------------
(* C13: every flag registered through the byte-quantity builder, the three *)
(* flags X, X-min and X-max of a byte-quantity triplet included, keeps for *)
(* the rest of the run the processor that parses a string into a           *)
(* ByteQuantity and the validator that rejects a non-nil value of another  *)
(* kind.                                                                   *)

\* the flags the call registered through the byte-quantity builder
ByteQuantityNames(call) ==
    IF call.builder = "ByteQuantityFlag" THEN {call.name}
    ELSE IF call.builder = "ByteQuantityMinMaxRangeFlags"
    THEN {call.name, MinOf(call.name), MaxOf(call.name)}
    ELSE {}

C13_ByteQuantityPipelineKept ==
    \A i \in 1..Len(calls) : \A n \in ByteQuantityNames(calls[i]) :
        /\ cl.processors[n] = Closure("byteQuantityProcessor", n, <<>>)
        /\ cl.validators[n] = Closure("byteQuantityValidator", n, <<>>)

----------------------------------------------------------------------------
(* C14: running the per-flag pipeline again on a registry that passed it   *)
(* is idempotent: for every registered flag, the processor and then the    *)
(* validator applied to the resolved value succeed and leave the registry  *)
(* as it is, without an error and without a failed type assertion.         *)

\* every per-flag pipeline has completed without an error
PassedPipeline == /\ pc \in {"reconcile", "done"}
                  /\ err = NoErr

C14_PipelineIdempotent ==
    PassedPipeline =>
        \A n \in Registered(cl) :
            /\ RunFlag(cl, n).err = NoErr
            /\ RunFlag(cl, n).Flags = cl.Flags

----------------------------------------------------------------------------
(* C15: every processor and validator the ratio, string-options,           *)
(* byte-quantity, regex and path builders create returns success and       *)
(* leaves the registry unchanged when it is called with nil, so the        *)
(* pipeline of a flag the user did not set never fails and leaves the flag *)
(* nil.                                                                    *)

C15_NilSkipped ==
    \A n \in Registered(cl) :
        /\ cl.processors[n] # NILFN
              => Call(cl.processors[n], NIL, cl.Flags) = Result(NoErr, cl.Flags)
        /\ (cl.validators[n] # NILFN /\ n \notin cl.rangeFlags)
              => Call(cl.validators[n], NIL, cl.Flags) = Result(NoErr, cl.Flags)
        /\ (Attempted(n) /\ Raw(n) = NIL) => Settled(n)
        /\ (pc = "pipeline" /\ Settled(n) /\ Raw(n) = NIL) => cl.Flags[n] = NIL

C15_Witness ==
    /\ Settled("disk")
    /\ err = NoErr
    /\ args["disk"] = UNSET
    /\ "disk" \in cl.nilDefaults
    /\ cl.validators["disk"] = Closure("byteQuantityValidator", "disk", <<>>)
    /\ cl.Flags["disk"] = NIL

====
